---------------------------- MODULE Spec2Model ----------------------------
(***************************************************************************)
(* The batching pipeline of the sentiment-classification notebooks.        *)
(*                                                                         *)
(* The notebooks build their iterators with                                *)
(*     data.BucketIterator.splits((train, valid, test),                    *)
(*         batch_size=BATCH_SIZE, sort_key=lambda x: len(x.text),          *)
(*         repeat=False)                                                   *)
(* and consume them with `for batch in iterator` / `len(iterator)`.  The   *)
(* behaviour of that call is the behaviour of the text library the         *)
(* notebooks import (the release whose field.py:322 warning the notebooks  *)
(* print): Iterator.__init__, Iterator.data, Iterator.init_epoch,          *)
(* Iterator.__iter__, Iterator.__len__, BucketIterator.create_batches,     *)
(* batch(), pool(), RandomShuffler, Batch.__init__ and Field.pad /         *)
(* Field.numericalize.  Each definition below names the step of that call  *)
(* it stands for.                                                          *)
(*                                                                         *)
(* An example is identified by its index in the dataset; dataset[i] is the *)
(* number of tokens of example i.  Its tokens and its label are fixed      *)
(* functions of the index (TokenAt, LabelOf).                              *)
(*                                                                         *)
(* Four specifications share the variables:                                *)
(*   Spec           one iterator, from its construction through its passes *)
(*   SpecEmptyText  the same over a split in which a text is empty         *)
(*   SpecNotebook   the cells before the loops: train.split, then          *)
(*                  TEXT.build_vocab (the library's Vocab), the iterators  *)
(*                  and the numericalization of texts                      *)
(*   SpecLoop       train(), evaluate(), binary_accuracy, the epoch loop   *)
(*                  and the test evaluation, statement by statement        *)
(* Each leaves the variables of the others at the values they have when    *)
(* its part of the notebook runs.                                          *)
(***************************************************************************)
EXTENDS Integers, Sequences, FiniteSets, Bags, TLC

\* ------------------------------------------------------------------ bounds
MaxN == 4
MaxLen == 2
MaxB == 2
MaxK == 2
NumRandomStates == 8
MaxPasses == 2

VARIABLES
    dataset,       \* the examples of the split: dataset[i] = len(example i .text)
    batch_size,    \* Iterator.batch_size
    chunk_mult,    \* the multiplier of pool(): chunks hold batch_size * chunk_mult examples
    train,         \* Iterator.train: TRUE for the first split, FALSE for valid / test
    globalRandom,  \* the state of the process-wide generator of module random
    random_state,  \* RandomShuffler._random_state of this iterator
    status,        \* "new", "ready", "iterating", "exhausted", "error"
    batches,       \* Iterator.batches: the minibatches not yet yielded in this pass
    chunks,        \* the length-sorted chunks the minibatches of this pass were cut from
    yielded,       \* the Batch objects yielded so far in this pass, each with the
                   \* examples it was built from and the chunk they were cut from
    passes,        \* number of passes that ran to exhaustion
    history,       \* the yielded minibatches of each finished pass, in order
    cell,          \* how far the notebook has run: "loaded", "split", "vocab",
                   \* "iterators", "failed"
    data_splits,   \* the texts bound to the names train, valid and test
    max_size,      \* the max_size argument of TEXT.build_vocab
    vocab,         \* TEXT.vocab.itos; <<>> while TEXT has no vocabulary
    builds,        \* number of TEXT.build_vocab calls made
    encoded,       \* the ids of the texts numericalized last
    sizes,         \* for each iterator, the sizes of the batches one pass of it yields
    epoch,         \* number of epochs of the epoch loop that are finished
    phase,         \* the call the notebook makes next: "train", "valid", "test";
                   \* "done" after the test evaluation, "failed" after an exception
    call,          \* the function that is running: "train", "evaluate" or "none"
    pc,            \* in a running function: 0 at the head of its for loop, i at the
                   \* i-th statement of the loop body
    yields,        \* number of batches the iterator has yielded in the running call
    training,      \* model.training
    label,         \* batch.label of the current batch
    predictions,   \* the local predictions
    loss,          \* the local loss
    acc,           \* the local acc
    epoch_loss,    \* the local epoch_loss
    epoch_acc,     \* the local epoch_acc
    grads,         \* number of backward passes summed in the .grad of the parameters
    steps,         \* for each iterator, the optimizer steps taken on its batches
    fetched,       \* for each iterator, the batches it has yielded in all its passes
    result,        \* what the call that finished last returned
    log,           \* the iterators of the calls that returned, in order
    trace,         \* the statements of the loop body run on the current batch, in order
    per_batch      \* the <<loss, acc>> added to the sums in the call that is running
                   \* or returned last, one pair for each batch

samplerVars == <<dataset, batch_size, chunk_mult, train, globalRandom, random_state,
                 status, batches, chunks, yielded, passes, history>>
notebookVars == <<cell, data_splits, max_size, vocab, builds, encoded>>
loopVars == <<sizes, epoch, phase, call, pc, yields, training, label, predictions, loss,
              acc, epoch_loss, epoch_acc, grads, steps, fetched, result, log,
              trace, per_batch>>
vars == <<samplerVars, notebookVars, loopVars>>

\* --------------------------------------------------------------- examples
\* TEXT.vocab.itos: index 0 is <unk>, index 1 is <pad>, then the corpus tokens.
UNK == 0
PAD == 1
itos == <<"<unk>", "<pad>", "the", "film">>

\* Vocab.stoi: a defaultdict whose default is the index of <unk>.
stoi(tok) ==
    IF \E k \in 1..Len(vocab) : vocab[k] = tok
    THEN (CHOOSE k \in 1..Len(vocab) : vocab[k] = tok) - 1
    ELSE UNK

\* The j-th token of example i ("zzz" is not in the vocabulary).
TokenAt(i, j) ==
    CASE (i + j) % 3 = 0 -> "the"
      [] (i + j) % 3 = 1 -> "film"
      [] OTHER -> "zzz"

\* x.text of example i.
TextOf(i) == [j \in 1..dataset[i] |-> TokenAt(i, j)]

\* x.label of example i, and LABEL.vocab.stoi = {'neg': 0, 'pos': 1}.
LabelOf(i) == IF i % 2 = 1 THEN "pos" ELSE "neg"
LabelId(l) == IF l = "pos" THEN 1 ELSE 0

\* sort_key=lambda x: len(x.text)
sort_key(i) == dataset[i]

\* ---------------------------------------------------------------- helpers
Range(s) == {s[k] : k \in 1..Len(s)}

Reverse(s) == [k \in 1..Len(s) |-> s[Len(s) + 1 - k]]

RECURSIVE SeqsUpTo(_, _)
SeqsUpTo(S, n) ==
    IF n = 0 THEN {<<>>}
    ELSE LET prev == SeqsUpTo(S, n - 1)
         IN  prev \cup {Append(s, x) : s \in {t \in prev : Len(t) = n - 1}, x \in S}

RECURSIVE Flatten(_)
Flatten(ss) == IF ss = <<>> THEN <<>> ELSE Head(ss) \o Flatten(Tail(ss))

Max(S) == CHOOSE x \in S : \A y \in S : y <= x
Min(S) == CHOOSE x \in S : \A y \in S : x <= y
RECURSIVE SumSeq(_)
SumSeq(s) == IF s = <<>> THEN 0 ELSE Head(s) + SumSeq(Tail(s))

\* sorted(xs, key=sort_key): a stable sort, equal keys keep their order.
RECURSIVE InsertByKey(_, _)
InsertByKey(sorted, x) ==
    IF sorted = <<>> THEN <<x>>
    ELSE IF sort_key(sorted[Len(sorted)]) <= sort_key(x) THEN Append(sorted, x)
    ELSE Append(InsertByKey(SubSeq(sorted, 1, Len(sorted) - 1), x), sorted[Len(sorted)])

RECURSIVE SortedByKey(_)
SortedByKey(xs) ==
    IF xs = <<>> THEN <<>>
    ELSE InsertByKey(SortedByKey(SubSeq(xs, 1, Len(xs) - 1)), xs[Len(xs)])


\* ------------------------------------------------------- random shuffling
\* random.sample(data, len(data)) as RandomShuffler.__call__ runs it under the
\* shuffler's own state: the i-th result is pool[j] for j = randbelow(n - i),
\* and the last live entry of the pool moves into slot j.  The generator is
\* abstracted to a number whose successive mixed-radix digits are the draws:
\* the states 0 .. n!-1 give the n! orders of n elements, so NumRandomStates
\* states give every order of up to 3 elements and as many orders of more.
RECURSIVE Sample(_, _)
Sample(pool, s) ==
    IF pool = <<>> THEN <<>>
    ELSE LET n == Len(pool)
             j == (s % n) + 1
             rest == SubSeq([pool EXCEPT ![j] = pool[n]], 1, n - 1)
         IN  <<pool[j]>> \o Sample(rest, s \div n)

\* The generator state a shuffle leaves behind (use_internal_state stores
\* random.getstate() back into the shuffler after the call).
Advance(s) == (s + 1) % NumRandomStates

\* ------------------------------------------------------------- batch()
\* batch(data, batch_size) with the default batch_size_fn (the count of the
\* minibatch): yields a minibatch when the count reaches batch_size; when the
\* count exceeds it, yields all but the newest example and restarts from that
\* example; yields what is left at the end when it is not empty.
RECURSIVE BatchFrom(_, _, _, _)
BatchFrom(data, i, minibatch, size) ==
    IF i > Len(data)
    THEN IF minibatch # <<>> THEN <<minibatch>> ELSE <<>>
    ELSE LET grown == Append(minibatch, data[i])
         IN  IF Len(grown) = size
             THEN <<grown>> \o BatchFrom(data, i + 1, <<>>, size)
             ELSE IF Len(grown) > size
             THEN <<minibatch>> \o BatchFrom(data, i + 1, <<data[i]>>, size)
             ELSE BatchFrom(data, i + 1, grown, size)

\* batch() without its final `if minibatch: yield minibatch`.
batch_NoRemainder(data, size) ==
    LET bs == BatchFrom(data, 1, <<>>, size)
    IN  IF bs # <<>> /\ Len(bs[Len(bs)]) < size THEN SubSeq(bs, 1, Len(bs) - 1) ELSE bs

\* batch() dealing the examples out in turn instead of cutting consecutive
\* slices: minibatch k gets the examples k, k + n, k + 2n, ... of the data.
batch_Dealt(data, size) ==
    IF size < 1 THEN <<>>
    ELSE LET n == (Len(data) + size - 1) \div size
         IN  [k \in 1..n |->
                [j \in 1..Cardinality({i \in 1..Len(data) : (i - 1) % n = k - 1}) |->
                    data[(j - 1) * n + k]]]

\* batch() yielding what is left at the end even when nothing is left.
batch_EmptyRemainder(data, size) ==
    LET bs == BatchFrom(data, 1, <<>>, size)
    IN  IF bs = <<>> \/ Len(bs[Len(bs)]) = size THEN Append(bs, <<>>) ELSE bs

batch(data, size) == BatchFrom(data, 1, <<>>, size)

\* -------------------------------------------------------------- pool()
\* pool(data, batch_size, key, random_shuffler): cuts data into chunks of
\* batch_size * chunk_mult examples, sorts each chunk by the key, cuts the
\* sorted chunk into minibatches and yields them in a shuffled order, chunk
\* after chunk.  The result carries the chunks and the generator state too.
RECURSIVE PoolFrom(_, _, _, _)
\* pool() cutting each chunk into minibatches without sorting it first.
RECURSIVE PoolFrom_Unsorted(_, _, _, _)
PoolFrom_Unsorted(ps, c, size, rs) ==
    IF c > Len(ps) THEN [batches |-> <<>>, chunks |-> <<>>, rs |-> rs]
    ELSE LET p == ps[c]
             p_batch == batch(p, size)
             shuffled == Sample(p_batch, rs)
             rest == PoolFrom_Unsorted(ps, c + 1, size, Advance(rs))
         IN  [batches |-> [k \in 1..Len(shuffled) |-> [ex |-> shuffled[k], chunk |-> c]]
                            \o rest.batches,
              chunks |-> <<p>> \o rest.chunks,
              rs |-> rest.rs]

PoolFrom(ps, c, size, rs) ==
    IF c > Len(ps) THEN [batches |-> <<>>, chunks |-> <<>>, rs |-> rs]
    ELSE LET p == SortedByKey(ps[c])
             p_batch == batch(p, size)
             shuffled == Sample(p_batch, rs)
             rest == PoolFrom(ps, c + 1, size, Advance(rs))
         IN  [batches |-> [k \in 1..Len(shuffled) |-> [ex |-> shuffled[k], chunk |-> c]]
                            \o rest.batches,
              chunks |-> <<p>> \o rest.chunks,
              rs |-> rest.rs]

\* pool() cutting chunks of one example more than batch_size * chunk_mult.
pool_ChunkOffByOne(data, size, mult, rs) ==
    PoolFrom(batch(data, size * mult + 1), 1, size, rs)

\* pool() without the sorted() around the chunk.
pool_Unsorted(data, size, mult, rs) ==
    PoolFrom_Unsorted(batch(data, size * mult), 1, size, rs)

\* pool() cutting chunks of batch_size examples, the multiplier forgotten.
pool_NoMultiplier(data, size, mult, rs) == PoolFrom(batch(data, size), 1, size, rs)

pool(data, size, mult, rs) == PoolFrom(batch(data, size * mult), 1, size, rs)

\* ------------------------------------------------------- Iterator fields
\* Iterator.__init__ with repeat=False and the train flag BucketIterator.splits
\* passes: shuffle = train, sort = not train, sort_within_batch = sort.
repeat == FALSE
shuffle == train
sort == ~train
sort_within_batch == sort

\* Iterator.__len__: math.ceil(len(self.dataset) / self.batch_size); the
\* division fails for batch_size = 0 (the value is then not defined here).
\* __len__ with floor division, len(self.dataset) // self.batch_size.
IteratorLen_Floor == IF batch_size # 0 THEN Len(dataset) \div batch_size ELSE 0

IteratorLen ==
    IF batch_size > 0 THEN (Len(dataset) + batch_size - 1) \div batch_size
    ELSE IF batch_size < 0 THEN 0 - (Len(dataset) \div (0 - batch_size))
    ELSE 0

\* Iterator.data() followed by BucketIterator.create_batches(): the minibatches
\* of one pass, the chunks they were cut from, and the generator state after.
create_batches ==
    LET all == [i \in 1..Len(dataset) |-> i]
    IN  IF sort
        THEN LET xs == SortedByKey(all)
                 bs == batch(xs, batch_size)
             IN  [batches |-> [k \in 1..Len(bs) |-> [ex |-> bs[k], chunk |-> 1]],
                  chunks |-> IF xs = <<>> THEN <<>> ELSE <<xs>>,
                  rs |-> random_state]
        ELSE IF shuffle
        THEN pool(Sample(all, random_state), batch_size, chunk_mult,
                  Advance(random_state))
        ELSE pool(all, batch_size, chunk_mult, random_state)

\* ------------------------------------------------------ Batch.__init__
\* Field.pad of TEXT (sequential, no fix_length, pad_first=False): every row is
\* the example's tokens followed by <pad> up to the longest text of the
\* minibatch.  The rows are defined for a non-empty minibatch only: for an empty
\* one max() of no lengths raises.
\* pad() padding to the longest text of the whole dataset.
pad_GlobalMax(minibatch) ==
    LET max_len == Max({dataset[i] : i \in 1..Len(dataset)})
    IN  [k \in 1..Len(minibatch) |->
            [j \in 1..max_len |->
                IF j <= dataset[minibatch[k]] THEN TextOf(minibatch[k])[j]
                ELSE itos[PAD + 1]]]

\* pad() with the <pad> tokens put before the text (pad_first).
pad_First(minibatch) ==
    LET max_len == Max({dataset[minibatch[k]] : k \in 1..Len(minibatch)})
    IN  [k \in 1..Len(minibatch) |->
            [j \in 1..max_len |->
                IF j <= max_len - dataset[minibatch[k]] THEN itos[PAD + 1]
                ELSE TextOf(minibatch[k])[j - (max_len - dataset[minibatch[k]])]]]

pad(minibatch) ==
    LET max_len == Max({dataset[minibatch[k]] : k \in 1..Len(minibatch)})
    IN  [k \in 1..Len(minibatch) |->
            [j \in 1..max_len |->
                IF j <= dataset[minibatch[k]] THEN TextOf(minibatch[k])[j]
                ELSE itos[PAD + 1]]]

\* Field.numericalize: every token through stoi (batch_first keeps one row per
\* example).
numericalize(padded) ==
    [k \in 1..Len(padded) |-> [j \in 1..Len(padded[k]) |-> stoi(padded[k][j])]]

\* TEXT was built without include_lengths: process() returns the padded tensor
\* alone, and the Batch has the attributes batch_size, text and label.
include_lengths == FALSE

\* Batch(minibatch, dataset, device, train) for a non-empty minibatch: one
\* attribute per field of the dataset, text before label.
Batch(minibatch) ==
    LET base == [batch_size |-> Len(minibatch),
                 text |-> numericalize(pad(minibatch)),
                 label |-> [k \in 1..Len(minibatch) |-> LabelId(LabelOf(minibatch[k]))]]
    IN  IF include_lengths
        THEN base @@ [lengths |-> [k \in 1..Len(minibatch) |-> dataset[minibatch[k]]]]
        ELSE base

\* ------------------------------------------------------------ vocabulary
\* The tokens a text can hold, in the alphabetical order of Python strings
\* ('<' sorts before the letters).
Alphabet == <<"<pad>", "film", "the", "zzz">>

\* Field.build_vocab: the specials are unk_token and pad_token (TEXT has no
\* init_token and no eos_token); max_size is passed on to Vocab.
specials == <<"<unk>", "<pad>">>

\* Number of occurrences of tok in the texts.
CountIn(texts, tok) ==
    Cardinality({p \in UNION {{<<d, j>> : j \in 1..Len(texts[d])} : d \in 1..Len(texts)} :
                    texts[p[1]][p[2]] = tok})

\* Field.build_vocab: counter.update(x) for every text x of every source.
Counter(texts) ==
    [tok \in {t \in Range(Alphabet) : CountIn(texts, t) > 0} |-> CountIn(texts, tok)]

\* TEXT.build_vocab(train, ...) with every split as a source.
VocabSources_AllSplits == data_splits.train \o data_splits.valid \o data_splits.test

\* The sources of TEXT.build_vocab(train, ...): what the name train is bound to.
VocabSources == data_splits.train

\* list.sort(key=lambda tup: tup[1], reverse=True): stable, so tokens of equal
\* frequency keep the order they had.
RECURSIVE SortByFreq(_, _)
SortByFreq(s, counter) ==
    IF s = <<>> THEN <<>>
    ELSE LET front == SortByFreq(SubSeq(s, 1, Len(s) - 1), counter)
             x == s[Len(s)]
             keep == Cardinality({k \in 1..Len(front) : counter[front[k]] >= counter[x]})
         IN  SubSeq(front, 1, keep) \o <<x>> \o SubSeq(front, keep + 1, Len(front))

\* Vocab.__init__, the loop over words_and_frequencies: stops at the first
\* frequency below min_freq (1) or when itos is max_size + len(specials) long.
RECURSIVE VocabFill(_, _, _, _, _)
VocabFill(list, wf, k, counter, limit) ==
    IF k > Len(wf) \/ counter[wf[k]] < 1 \/ Len(list) = limit THEN list
    ELSE VocabFill(Append(list, wf[k]), wf, k + 1, counter, limit)

\* Vocab.__init__ leaving the special tokens in the counter.
Vocab_KeepSpecials(counter, max) ==
    LET by_token == SelectSeq(Alphabet, LAMBDA t : t \in DOMAIN counter)
        words_and_frequencies == SortByFreq(by_token, counter)
    IN  VocabFill(specials, words_and_frequencies, 1, counter, max + Len(specials))

\* Vocab.__init__: itos starts as the specials, whose counts are dropped from
\* the counter; the other tokens are sorted alphabetically, then by frequency
\* (descending), and appended up to the limit.
Vocab(counter, max) ==
    LET kept == DOMAIN counter \ Range(specials)
        by_token == SelectSeq(Alphabet, LAMBDA t : t \in kept)
        words_and_frequencies == SortByFreq(by_token, counter)
    IN  VocabFill(specials, words_and_frequencies, 1, counter, max + Len(specials))

\* int(round(num / den)): Python 3 rounds a half to the even neighbour.
RoundHalfEven(num, den) ==
    LET q == num \div den
        r == num % den
    IN  IF 2 * r < den THEN q
        ELSE IF 2 * r > den THEN q + 1
        ELSE IF q % 2 = 0 THEN q ELSE q + 1

\* Dataset.split with its default split_ratio of 0.7: the examples are taken in
\* the order a RandomShuffler (state rs) puts their indices, the first
\* round(0.7 * N) for the first split and the others for the second.
split(examples, rs) ==
    LET randperm == Sample([i \in 1..Len(examples) |-> i], rs)
        train_len == RoundHalfEven(7 * Len(examples), 10)
    IN  [train |-> [k \in 1..train_len |-> examples[randperm[k]]],
         valid |-> [k \in 1..(Len(examples) - train_len) |->
                        examples[randperm[train_len + k]]]]

\* The notebook as the iterators find it: both splits made and the vocabulary
\* built.  The examples are then those of dataset, and their texts TextOf.
NotebookReady ==
    /\ cell = "iterators"
    /\ data_splits = [train |-> <<>>, valid |-> <<>>, test |-> <<>>]
    /\ max_size = Len(itos) - Len(specials)
    /\ vocab = itos
    /\ builds = 1
    /\ encoded = <<>>

\* ------------------------------------------------- the training functions
n_epochs == 5

\* The statements of the loop body of train() and of evaluate(), in order.
\* train() without its optimizer.zero_grad().
TrainBody_NoZeroGrad == <<"forward", "loss", "acc", "backward", "step", "accum">>

TrainBody == <<"zero_grad", "forward", "loss", "acc", "backward", "step", "accum">>

\* evaluate() with the backward pass and the optimizer step of train().
EvalBody_WithStep == <<"forward", "loss", "acc", "backward", "step", "accum">>

EvalBody == <<"forward", "loss", "acc", "accum">>

Body(fn) == IF fn = "train" THEN TrainBody ELSE EvalBody

\* model.train() sets model.training to True, model.eval() to False.
\* evaluate() without its model.eval(): the flag stays as it is.
EvalMode_Unset == training

TrainMode == TRUE
EvalMode == FALSE

\* Fractions <<numerator, denominator>> in lowest terms stand for the floats.
RECURSIVE GCD(_, _)
GCD(a, b) == IF b = 0 THEN a ELSE GCD(b, a % b)
Frac(n, d) == LET g == GCD(n, d) IN <<n \div g, d \div g>>
\* The sum replaced by its last term (= instead of +=).
AddFrac_Overwrite(a, b) == Frac(b[1], b[2])
AddFrac(a, b) == Frac(a[1] * b[2] + b[1] * a[2], a[2] * b[2])
Zero == <<0, 1>>

\* The outputs of the model (logits) and F.sigmoid of them, in thousandths.
Logits == {0 - 1, 0, 1}
sigmoid(x) == CASE x = 0 - 1 -> 269 [] x = 0 -> 500 [] x = 1 -> 731

\* torch.round: to the nearest integer, a half to the even one.
round(v) == RoundHalfEven(v, 1000)

\* binary_accuracy returning correct.sum(), the division forgotten.
binary_accuracy_Sum(preds, y) ==
    LET rounded_preds == [j \in 1..Len(preds) |-> round(sigmoid(preds[j]))]
        correct == [j \in 1..Len(preds) |-> IF rounded_preds[j] = y[j] THEN 1 ELSE 0]
    IN  Frac(Cardinality({j \in 1..Len(correct) : correct[j] = 1}), 1)

\* binary_accuracy(preds, y), for a batch that is not empty.
binary_accuracy(preds, y) ==
    LET rounded_preds == [j \in 1..Len(preds) |-> round(sigmoid(preds[j]))]
        correct == [j \in 1..Len(preds) |-> IF rounded_preds[j] = y[j] THEN 1 ELSE 0]
    IN  Frac(Cardinality({j \in 1..Len(correct) : correct[j] = 1}), Len(correct))

\* nn.BCEWithLogitsLoss: the mean over the batch of -log(sigmoid(x)) for the
\* label 1 and of -log(1 - sigmoid(x)) for the label 0, in thousandths.
criterion(preds, y) ==
    LET bce(x, t) == CASE x = 0 -> 693
                       [] (x = 1 /\ t = 1) \/ (x = 0 - 1 /\ t = 0) -> 313
                       [] OTHER -> 1313
        total == SumSeq([j \in 1..Len(preds) |-> bce(preds[j], y[j])])
    IN  Frac(total, Len(preds))

\* Before the epoch loop: the model is new (a new nn.Module is in training
\* mode), no function is running, nothing was returned.
NoCall ==
    /\ call = "none"
    /\ pc = 0
    /\ yields = 0
    /\ label = <<>>
    /\ predictions = <<>>
    /\ loss = Zero
    /\ acc = Zero
    /\ epoch_loss = Zero
    /\ epoch_acc = Zero
    /\ trace = <<>>

LoopNotStarted ==
    /\ sizes = [train |-> <<>>, valid |-> <<>>, test |-> <<>>]
    /\ epoch = 0
    /\ phase = "train"
    /\ NoCall
    /\ training = TRUE
    /\ grads = 0
    /\ steps = [train |-> 0, valid |-> 0, test |-> 0]
    /\ fetched = [train |-> 0, valid |-> 0, test |-> 0]
    /\ result = <<>>
    /\ log = <<>>
    /\ per_batch = <<>>

\* ---------------------------------------------------------------- actions
Datasets == SeqsUpTo(1..MaxLen, MaxN)
BatchSizes == {0 - 1} \cup (0..MaxB)

\* The scenario of the specification: ten examples, batch size 4, multiplier 3.
Scenario == [lens |-> <<3, 7, 2, 9, 4, 8, 1, 6, 5, 10>>, B |-> 4, K |-> 3]

Init ==
    /\ \/ /\ dataset \in Datasets
          /\ batch_size \in BatchSizes
          /\ chunk_mult \in 1..MaxK
       \/ /\ dataset = Scenario.lens
          /\ batch_size = Scenario.B
          /\ chunk_mult = Scenario.K
    /\ train \in BOOLEAN
    /\ globalRandom \in 0..(NumRandomStates - 1)
    /\ random_state = -1
    /\ status = "new"
    /\ batches = <<>>
    /\ chunks = <<>>
    /\ yielded = <<>>
    /\ passes = 0
    /\ history = <<>>
    /\ NotebookReady
    /\ LoopNotStarted

\* BucketIterator.splits -> Iterator.__init__: stores its arguments and builds a
\* RandomShuffler, which copies random.getstate().  Nothing is validated.
Construct ==
    /\ status = "new"
    /\ status' = "ready"
    /\ random_state' = globalRandom
    /\ UNCHANGED <<dataset, batch_size, chunk_mult, train, globalRandom,
                   batches, chunks, yielded, passes, history>>
    /\ UNCHANGED <<notebookVars, loopVars>>

\* init_epoch sorting the examples of the dataset in place
\* (dataset.examples.sort(key=sort_key)) before it makes the batches.
InitEpoch_SortInPlace ==
    /\ status \in {"ready", "exhausted"}
    /\ passes < MaxPasses
    /\ LET made == create_batches
       IN  /\ batches' = made.batches
           /\ chunks' = made.chunks
           /\ random_state' = made.rs
    /\ dataset' = LET xs == SortedByKey([i \in 1..Len(dataset) |-> i])
                  IN  [k \in 1..Len(dataset) |-> dataset[xs[k]]]
    /\ yielded' = <<>>
    /\ status' = "iterating"
    /\ UNCHANGED <<batch_size, chunk_mult, train, globalRandom, passes, history>>
    /\ UNCHANGED <<notebookVars, loopVars>>

\* `for batch in iterator`: Iterator.__iter__ -> init_epoch -> create_batches.
InitEpoch ==
    /\ status \in {"ready", "exhausted"}
    /\ passes < MaxPasses
    /\ LET made == create_batches
       IN  /\ batches' = made.batches
           /\ chunks' = made.chunks
           /\ random_state' = made.rs
    /\ yielded' = <<>>
    /\ status' = "iterating"
    /\ UNCHANGED <<dataset, batch_size, chunk_mult, train, globalRandom,
                   passes, history>>
    /\ UNCHANGED <<notebookVars, loopVars>>

\* The next minibatch of the pass: reversed when sort_within_batch (and sort),
\* then wrapped in a Batch; an empty minibatch makes Field.pad raise.
NextBatch ==
    /\ status = "iterating"
    /\ batches # <<>>
    /\ LET b == Head(batches)
           minibatch == IF sort_within_batch THEN Reverse(b.ex) ELSE b.ex
       IN  IF minibatch = <<>>
           THEN /\ status' = "error"
                /\ UNCHANGED <<yielded, batches>>
           ELSE /\ yielded' = Append(yielded, [batch |-> Batch(minibatch), ex |-> minibatch,
                                            chunk |-> b.chunk])
                /\ batches' = Tail(batches)
                /\ UNCHANGED status
    /\ UNCHANGED <<dataset, batch_size, chunk_mult, train, globalRandom,
                   random_state, chunks, passes, history>>
    /\ UNCHANGED <<notebookVars, loopVars>>

\* The minibatches are used up and repeat is False: __iter__ returns, the for
\* loop ends.
StopIteration ==
    /\ status = "iterating"
    /\ batches = <<>>
    /\ ~repeat
    /\ status' = "exhausted"
    /\ passes' = passes + 1
    /\ history' = Append(history, [k \in 1..Len(yielded) |-> yielded[k].ex])
    /\ UNCHANGED <<dataset, batch_size, chunk_mult, train, globalRandom,
                   random_state, batches, chunks, yielded>>
    /\ UNCHANGED <<notebookVars, loopVars>>

Next == Construct \/ InitEpoch \/ NextBatch \/ StopIteration

Spec == Init /\ [][Next]_vars

\* ------------------------------------------------- the cells before the loops
\* The notebook from datasets.IMDB.splits to the iterators: the split of the
\* training data, the vocabulary, the iterators, and the numericalization of
\* the texts when a batch is made.
MaxDocs == 3
MaxSize == 2

Texts == {<<"the">>, <<"film">>, <<"the", "film">>, <<"film", "the">>,
          <<"zzz", "the">>, <<"<pad>", "film">>}
Corpora == UNION {[1..n -> Texts] : n \in 1..MaxDocs}

\* No iterator exists yet.
NoIterator ==
    /\ dataset = <<>>
    /\ batch_size = 1
    /\ chunk_mult = 1
    /\ train = TRUE
    /\ random_state = -1
    /\ status = "new"
    /\ batches = <<>>
    /\ chunks = <<>>
    /\ yielded = <<>>
    /\ passes = 0
    /\ history = <<>>

\* After train, test = datasets.IMDB.splits(TEXT, LABEL).  globalRandom is the
\* state random.seed(SEED) leaves behind.
InitNotebook ==
    /\ NoIterator
    /\ globalRandom \in 0..(NumRandomStates - 1)
    /\ cell = "loaded"
    /\ data_splits \in [train : Corpora, valid : {<<>>}, test : {<< <<"zzz", "film">> >>}]
    /\ max_size \in 1..MaxSize
    /\ vocab = <<>>
    /\ builds = 0
    /\ encoded = <<>>
    /\ LoopNotStarted

\* train, valid = train.split(random_state=random.seed(SEED)): split() drops
\* an empty part, and the assignment to two names then fails.
SplitCell ==
    /\ cell = "loaded"
    /\ LET parts == split(data_splits.train, globalRandom)
       IN  IF parts.valid = <<>>
           THEN /\ cell' = "failed"
                /\ UNCHANGED data_splits
           ELSE /\ cell' = "split"
                /\ data_splits' = [data_splits EXCEPT !.train = parts.train,
                                                      !.valid = parts.valid]
    /\ UNCHANGED <<samplerVars, loopVars, max_size, vocab, builds, encoded>>

\* TEXT.build_vocab(train, max_size=25000, ...).
BuildVocabCell ==
    /\ cell = "split"
    /\ vocab' = Vocab(Counter(VocabSources), max_size)
    /\ builds' = builds + 1
    /\ cell' = "vocab"
    /\ UNCHANGED <<samplerVars, loopVars, data_splits, max_size, encoded>>

\* train_iterator, valid_iterator, test_iterator = data.BucketIterator.splits(...).
IteratorsCell ==
    /\ cell = "vocab"
    /\ cell' = "iterators"
    /\ UNCHANGED <<samplerVars, loopVars, data_splits, max_size, vocab, builds, encoded>>

\* A pass of train() or evaluate() over one of the iterators: the texts of its
\* split go through TEXT.vocab.stoi.
PassCell ==
    /\ cell = "iterators"
    /\ \E name \in {"train", "valid", "test"} :
          encoded' = [d \in 1..Len(data_splits[name]) |->
                         [j \in 1..Len(data_splits[name][d]) |->
                             stoi(data_splits[name][d][j])]]
    /\ UNCHANGED <<samplerVars, loopVars, cell, data_splits, max_size, vocab, builds>>

NextNotebook == SplitCell \/ BuildVocabCell \/ IteratorsCell \/ PassCell

SpecNotebook == InitNotebook /\ [][NextNotebook]_vars

\* ------------------------------------------------------- the epoch loop
\* The iterators are known here by the batches a pass of them yields: the
\* sizes of the batches (every pass of an iterator yields as many batches as
\* len(iterator), of the same sizes).  The labels of a batch are any labels
\* (0 for neg, 1 for pos) and the outputs of the model any logits.
PassSizes == {<<>>, <<1>>, <<2>>, <<2, 1>>, <<1, 2>>, <<2, 2>>}

InitLoop ==
    /\ NoIterator
    /\ globalRandom = 0
    /\ NotebookReady
    /\ sizes \in [train : PassSizes, valid : PassSizes, test : PassSizes]
    /\ epoch = 0
    /\ phase = "train"
    /\ NoCall
    /\ training = TRUE
    /\ grads = 0
    /\ steps = [train |-> 0, valid |-> 0, test |-> 0]
    /\ fetched = [train |-> 0, valid |-> 0, test |-> 0]
    /\ result = <<>>
    /\ log = <<>>
    /\ per_batch = <<>>

\* The iterator the running (or next) call works on.
iterator == phase
Stmt == Body(call)[pc]
AfterStmt == IF pc < Len(Body(call)) THEN pc + 1 ELSE 0

\* train_loss, train_acc = train(model, train_iterator, optimizer, criterion),
\* up to the for loop: the sums are set to 0 and model.train() is called.
CallTrain ==
    /\ call = "none"
    /\ phase = "train"
    /\ epoch < n_epochs
    /\ call' = "train"
    /\ epoch_loss' = Zero
    /\ epoch_acc' = Zero
    /\ training' = TrainMode
    /\ result' = <<>>
    /\ per_batch' = <<>>
    /\ UNCHANGED <<sizes, trace, fetched, epoch, phase, pc, yields, label, predictions, loss, acc,
                   grads, steps, log>>
    /\ UNCHANGED <<samplerVars, notebookVars>>

\* evaluate(model, valid_iterator, criterion) in the epoch loop and
\* evaluate(model, test_iterator, criterion) after it, up to the for loop.
CallEvaluate ==
    /\ call = "none"
    /\ phase \in {"valid", "test"}
    /\ call' = "evaluate"
    /\ epoch_loss' = Zero
    /\ epoch_acc' = Zero
    /\ training' = EvalMode
    /\ result' = <<>>
    /\ per_batch' = <<>>
    /\ UNCHANGED <<sizes, trace, fetched, epoch, phase, pc, yields, label, predictions, loss, acc,
                   grads, steps, log>>
    /\ UNCHANGED <<samplerVars, notebookVars>>

\* for batch in iterator: the iterator yields its next batch.
ForBatch ==
    /\ call # "none"
    /\ pc = 0
    /\ yields < Len(sizes[iterator])
    /\ yields' = yields + 1
    /\ fetched' = [fetched EXCEPT ![iterator] = @ + 1]
    /\ label' \in [1..sizes[iterator][yields + 1] -> {0, 1}]
    /\ pc' = 1
    /\ trace' = <<>>
    /\ UNCHANGED <<sizes, per_batch, epoch, phase, call, training, predictions, loss, acc,
                   epoch_loss, epoch_acc, grads, steps, result, log>>
    /\ UNCHANGED <<samplerVars, notebookVars>>

\* optimizer.zero_grad()
ZeroGrad ==
    /\ call # "none"
    /\ pc >= 1
    /\ Stmt = "zero_grad"
    /\ grads' = 0
    /\ pc' = AfterStmt
    /\ trace' = Append(trace, Stmt)
    /\ UNCHANGED <<sizes, per_batch, fetched, epoch, phase, call, yields, training, label, predictions, loss,
                   acc, epoch_loss, epoch_acc, steps, result, log>>
    /\ UNCHANGED <<samplerVars, notebookVars>>

\* predictions = model(batch.text).squeeze(1)
Forward ==
    /\ call # "none"
    /\ pc >= 1
    /\ Stmt = "forward"
    /\ predictions' \in [1..Len(label) -> Logits]
    /\ pc' = AfterStmt
    /\ trace' = Append(trace, Stmt)
    /\ UNCHANGED <<sizes, per_batch, fetched, epoch, phase, call, yields, training, label, loss,
                   acc, epoch_loss, epoch_acc, grads, steps, result, log>>
    /\ UNCHANGED <<samplerVars, notebookVars>>

\* loss = criterion(predictions, batch.label)
Loss ==
    /\ call # "none"
    /\ pc >= 1
    /\ Stmt = "loss"
    /\ loss' = criterion(predictions, label)
    /\ pc' = AfterStmt
    /\ trace' = Append(trace, Stmt)
    /\ UNCHANGED <<sizes, per_batch, fetched, epoch, phase, call, yields, training, label, predictions,
                   acc, epoch_loss, epoch_acc, grads, steps, result, log>>
    /\ UNCHANGED <<samplerVars, notebookVars>>

\* acc = binary_accuracy(predictions, batch.label)
Acc ==
    /\ call # "none"
    /\ pc >= 1
    /\ Stmt = "acc"
    /\ acc' = binary_accuracy(predictions, label)
    /\ pc' = AfterStmt
    /\ trace' = Append(trace, Stmt)
    /\ UNCHANGED <<sizes, per_batch, fetched, epoch, phase, call, yields, training, label, predictions,
                   loss, epoch_loss, epoch_acc, grads, steps, result, log>>
    /\ UNCHANGED <<samplerVars, notebookVars>>

\* loss.backward(): the gradient of this loss is added to .grad.
Backward ==
    /\ call # "none"
    /\ pc >= 1
    /\ Stmt = "backward"
    /\ grads' = grads + 1
    /\ pc' = AfterStmt
    /\ trace' = Append(trace, Stmt)
    /\ UNCHANGED <<sizes, per_batch, fetched, epoch, phase, call, yields, training, label, predictions, loss,
                   acc, epoch_loss, epoch_acc, steps, result, log>>
    /\ UNCHANGED <<samplerVars, notebookVars>>

\* optimizer.step()
Step ==
    /\ call # "none"
    /\ pc >= 1
    /\ Stmt = "step"
    /\ steps' = [steps EXCEPT ![iterator] = @ + 1]
    /\ pc' = AfterStmt
    /\ trace' = Append(trace, Stmt)
    /\ UNCHANGED <<sizes, per_batch, fetched, epoch, phase, call, yields, training, label, predictions, loss,
                   acc, epoch_loss, epoch_acc, grads, result, log>>
    /\ UNCHANGED <<samplerVars, notebookVars>>

\* epoch_loss += loss.item(); epoch_acc += acc.item()
Accumulate ==
    /\ call # "none"
    /\ pc >= 1
    /\ Stmt = "accum"
    /\ epoch_loss' = AddFrac(epoch_loss, loss)
    /\ epoch_acc' = AddFrac(epoch_acc, acc)
    /\ pc' = AfterStmt
    /\ trace' = Append(trace, Stmt)
    /\ per_batch' = Append(per_batch, <<loss, acc>>)
    /\ UNCHANGED <<sizes, fetched, epoch, phase, call, yields, training, label, predictions, loss,
                   acc, grads, steps, result, log>>
    /\ UNCHANGED <<samplerVars, notebookVars>>

\* The test evaluation moved into the epoch loop, after the validation pass.
PhaseAfter_TestEveryEpoch(it) ==
    CASE it = "train" -> "valid"
      [] it = "valid" -> "test"
      [] it = "test"  -> IF epoch < n_epochs THEN "train" ELSE "done"

\* The call the notebook makes after a call on iterator `it` has returned:
\* the validation pass after the training pass, the next epoch or, after the
\* last one, the test evaluation after the validation pass.
PhaseAfter(it) ==
    CASE it = "train" -> "valid"
      [] it = "valid" -> IF epoch + 1 < n_epochs THEN "train" ELSE "test"
      [] it = "test"  -> "done"

\* The return with a result of 0, 0 for an iterator of no batches.
Return_NoFailure ==
    /\ call # "none"
    /\ pc = 0
    /\ yields = Len(sizes[iterator])
    /\ IF Len(sizes[iterator]) = 0
       THEN /\ result' = <<Zero, Zero>>
            /\ log' = Append(log, iterator)
            /\ phase' = PhaseAfter(iterator)
            /\ epoch' = IF iterator = "valid" THEN epoch + 1 ELSE epoch
       ELSE /\ result' = <<Frac(epoch_loss[1], epoch_loss[2] * Len(sizes[iterator])),
                           Frac(epoch_acc[1], epoch_acc[2] * Len(sizes[iterator]))>>
            /\ log' = Append(log, iterator)
            /\ phase' = PhaseAfter(iterator)
            /\ epoch' = IF iterator = "valid" THEN epoch + 1 ELSE epoch
    /\ call' = "none"
    /\ yields' = 0
    /\ label' = <<>>
    /\ predictions' = <<>>
    /\ loss' = Zero
    /\ acc' = Zero
    /\ epoch_loss' = Zero
    /\ epoch_acc' = Zero
    /\ trace' = <<>>
    /\ UNCHANGED <<sizes, per_batch, fetched, pc, training, grads, steps>>
    /\ UNCHANGED <<samplerVars, notebookVars>>

\* The iterator is used up: the for loop ends and the function returns
\* epoch_loss / len(iterator), epoch_acc / len(iterator); with len(iterator) = 0
\* the division raises ZeroDivisionError and the notebook stops.
Return ==
    /\ call # "none"
    /\ pc = 0
    /\ yields = Len(sizes[iterator])
    /\ IF Len(sizes[iterator]) = 0
       THEN /\ phase' = "failed"
            /\ UNCHANGED <<result, log, epoch>>
       ELSE /\ result' = <<Frac(epoch_loss[1], epoch_loss[2] * Len(sizes[iterator])),
                           Frac(epoch_acc[1], epoch_acc[2] * Len(sizes[iterator]))>>
            /\ log' = Append(log, iterator)
            /\ phase' = PhaseAfter(iterator)
            /\ epoch' = IF iterator = "valid" THEN epoch + 1 ELSE epoch
    /\ call' = "none"
    /\ yields' = 0
    /\ label' = <<>>
    /\ predictions' = <<>>
    /\ loss' = Zero
    /\ acc' = Zero
    /\ epoch_loss' = Zero
    /\ epoch_acc' = Zero
    /\ trace' = <<>>
    /\ UNCHANGED <<sizes, per_batch, fetched, pc, training, grads, steps>>
    /\ UNCHANGED <<samplerVars, notebookVars>>

NextLoop ==
    \/ CallTrain \/ CallEvaluate \/ ForBatch \/ ZeroGrad \/ Forward \/ Loss \/ Acc
    \/ Backward \/ Step \/ Accumulate \/ Return

SpecLoop == InitLoop /\ [][NextLoop]_vars


\* ------------------------------------------------------------- the claims
N == Len(dataset)
CeilDiv(a, b) == IF a % b = 0 THEN a \div b ELSE (a \div b) + 1

\* The examples of a sequence of minibatches, in the order they were yielded.
ExamplesOf(mbs) == Flatten(mbs)
YieldedMinibatches == [k \in 1..Len(yielded) |-> yielded[k].ex]

\* s lists every example of the dataset exactly once.
ExactlyOnce(s) == Len(s) = N /\ Range(s) = 1..N
NoDuplicates(s) == \A a, b \in 1..Len(s) : a # b => s[a] # s[b]

\* C1 (coverage): with a batch size of at least 1, for every multiplier and
\* every generator state, no example is yielded twice within a pass, and when a
\* pass is exhausted (the first pass and every later one) every example of the
\* dataset was yielded in exactly one batch.
C1_Coverage ==
    batch_size >= 1 =>
        /\ NoDuplicates(ExamplesOf(YieldedMinibatches))
        /\ Range(ExamplesOf(YieldedMinibatches)) \subseteq 1..N
        /\ status = "exhausted" => ExactlyOnce(ExamplesOf(YieldedMinibatches))
        /\ \A p \in 1..Len(history) : ExactlyOnce(ExamplesOf(history[p]))

\* A second pass of the shuffling iterator is exhausted, over several chunks
\* with a trailing short batch.
C1_Witness ==
    /\ batch_size >= 1
    /\ train
    /\ status = "exhausted"
    /\ passes = 2
    /\ Len(chunks) >= 2
    /\ N % batch_size # 0
    /\ history[1] # history[2]

\* The sizes of the batches yielded in this pass.
Sizes == [k \in 1..Len(yielded) |-> yielded[k].batch.batch_size]
Short == {k \in 1..Len(yielded) : Sizes[k] < batch_size}
Full == {k \in 1..Len(yielded) : Sizes[k] = batch_size}

\* The part of the size bound that does not speak of the position of the short
\* batch.
SizeBound ==
    /\ \A k \in 1..Len(yielded) : Sizes[k] <= batch_size /\ Sizes[k] >= 1
    /\ Cardinality(Short) <= 1
    /\ \A k \in Short : Sizes[k] = N % batch_size /\ N % batch_size # 0
    /\ status = "exhausted" =>
          /\ Cardinality(Full) = N \div batch_size
          /\ (N % batch_size # 0 => Cardinality(Short) = 1)

\* C2 as stated: the size bound, and the short batch is the last batch yielded
\* in the pass.
C2_SizeBoundTrailing ==
    (batch_size >= 1 /\ status = "exhausted") =>
        /\ SizeBound
        /\ \A k \in Short : k = Len(yielded)

\* C2 as amended: the size bound holds; the short batch is cut from the last
\* chunk of the pass, and it is the last batch yielded when the iterator does
\* not shuffle (the valid and test iterators).
C2_SizeBound ==
    batch_size >= 1 =>
        /\ SizeBound
        /\ status = "exhausted" =>
              \A k \in Short :
                  /\ yielded[k].chunk = Len(chunks)
                  /\ ~shuffle => k = Len(yielded)

\* A pass of the shuffling iterator ended with its short batch yielded first.
C2_Witness ==
    /\ batch_size >= 1
    /\ status = "exhausted"
    /\ train
    /\ Short = {1}
    /\ Len(yielded) >= 2

\* C3: with a batch size of at least 1 a pass yields exactly ceil(N / B)
\* batches, which is len(iterator); while fewer were yielded the next request
\* yields a batch and does not end the pass; once all were yielded the request
\* ends the pass; and no error state is ever entered.
C3_BatchCount ==
    batch_size >= 1 =>
        /\ status # "error"
        /\ IteratorLen = CeilDiv(N, batch_size)
        /\ status = "exhausted" => Len(yielded) = IteratorLen
        /\ status = "iterating" =>
              /\ Len(yielded) + Len(batches) = IteratorLen
              /\ Len(yielded) < IteratorLen => (ENABLED NextBatch /\ ~ENABLED StopIteration)
              /\ Len(yielded) = IteratorLen => (ENABLED StopIteration /\ ~ENABLED NextBatch)

\* A pass over a dataset whose size is no multiple of the batch size is
\* exhausted after more than one batch.
C3_Witness ==
    /\ batch_size >= 1
    /\ status = "exhausted"
    /\ N % batch_size # 0
    /\ Len(yielded) = (N \div batch_size) + 1
    /\ Len(yielded) >= 2


\* The original lengths of the examples of the k-th yielded batch.
OrigLens(k) == [r \in 1..Len(yielded[k].ex) |-> dataset[yielded[k].ex[r]]]
MaxOrigLen(k) == Max(Range(OrigLens(k)))

\* Every row of the k-th yielded batch is as long as the longest original text
\* of the batch.
RowsPadded(k) ==
    /\ Len(yielded[k].batch.text) = Len(yielded[k].ex)
    /\ \A r \in 1..Len(yielded[k].batch.text) :
          Len(yielded[k].batch.text[r]) = MaxOrigLen(k)

C5_RightPadding ==
    \A k \in 1..Len(yielded) :
        LET b == yielded[k].batch
            ex == yielded[k].ex
        IN  /\ Len(b.text) = Len(ex)
            /\ \A r \in 1..Len(ex) :
                  /\ Len(b.text[r]) >= dataset[ex[r]]
                  /\ \A j \in 1..Len(b.text[r]) :
                        IF j <= dataset[ex[r]]
                        THEN b.text[r][j] = stoi(TokenAt(ex[r], j))
                        ELSE b.text[r][j] = PAD
            /\ Len(b.label) = b.batch_size
            /\ b.batch_size = Len(ex)
            /\ \A r \in 1..Len(ex) : b.label[r] = LabelId(LabelOf(ex[r]))

\* A batch was yielded in which a shorter text stands before a longer one and
\* the two examples have different labels.
C5_Witness ==
    \E k \in 1..Len(yielded) :
        /\ yielded[k].batch.batch_size >= 2
        /\ dataset[yielded[k].ex[1]] < dataset[yielded[k].ex[2]]
        /\ yielded[k].batch.label[1] # yielded[k].batch.label[2]
        /\ yielded[k].batch.text[1][Len(yielded[k].batch.text[1])] = PAD


\* C6 as stated: the batches of a pass and their order are a function of the
\* dataset, the batch size, the multiplier and the seed alone, so the second
\* pass of an iterator, which has all four in common with the first, yields
\* the same minibatches in the same order.
C6_SamePassOrder ==
    (batch_size >= 1 /\ Len(history) >= 2) => history[2] = history[1]

\* C7 as stated: an iterator with a batch size of 0 or less is never
\* constructed (construction ends in an error) and never yields a batch.
C7_ConfigError ==
    batch_size <= 0 =>
        /\ status \in {"new", "error"}
        /\ yielded = <<>>

\* C8: over an empty dataset with a batch size of at least 1 the iterator is
\* constructed, every pass ends at its first request with no batch yielded,
\* and no error state is entered.
C8_EmptyInput ==
    (N = 0 /\ batch_size >= 1) =>
        /\ status # "error"
        /\ yielded = <<>>
        /\ batches = <<>>
        /\ status = "new" => ENABLED Construct
        /\ status = "iterating" => (ENABLED StopIteration /\ ~ENABLED NextBatch)
        /\ \A p \in 1..Len(history) : history[p] = <<>>

\* Two passes over an empty dataset were exhausted.
C8_Witness ==
    /\ N = 0
    /\ batch_size >= 1
    /\ status = "exhausted"
    /\ passes = 2

RECURSIVE ProdSeq(_)
ProdSeq(s) == IF s = <<>> THEN 1 ELSE Head(s) * ProdSeq(Tail(s))

LensOf(exs) == [r \in 1..Len(exs) |-> dataset[exs[r]]]
\* n^2 times the variance of the numbers of s: n * sum(x^2) - sum(x)^2.
VarNum(s) == Len(s) * SumSeq([r \in 1..Len(s) |-> s[r] * s[r]]) - SumSeq(s) * SumSeq(s)
Spread(s) == Max(Range(s)) - Min(Range(s))

\* The yielded batches cut from chunk c.
BatchesOfChunk(c) == SelectSeq(yielded, LAMBDA y : y.chunk = c)

\* C9 as stated: the variance of the lengths of every yielded batch is at most
\* the variance of the lengths of the chunk it was cut from
\* (VarNum(b) / nb^2 <= VarNum(c) / nc^2).
C9_BatchVariance ==
    batch_size >= 1 =>
        \A k \in 1..Len(yielded) :
            LET b == LensOf(yielded[k].ex)
                c == LensOf(chunks[yielded[k].chunk])
            IN  VarNum(b) * Len(c) * Len(c) <= VarNum(c) * Len(b) * Len(b)

\* C9 as amended: for the batches cut from one chunk, the size-weighted mean
\* of their length variances is at most the variance of the chunk's lengths
\* (sum of VarNum(b) / nb <= VarNum(c) / nc), and their spreads (longest minus
\* shortest length) add up to at most the spread of the chunk.
C9_Homogeneity ==
    batch_size >= 1 =>
        \A c \in 1..Len(chunks) :
            LET bs == BatchesOfChunk(c)
                cl == LensOf(chunks[c])
                ns == [k \in 1..Len(bs) |-> Len(bs[k].ex)]
                L == Len(cl) * ProdSeq(ns)
            IN  /\ SumSeq([k \in 1..Len(bs) |-> VarNum(LensOf(bs[k].ex)) * (L \div ns[k])])
                      <= VarNum(cl) * (L \div Len(cl))
                /\ SumSeq([k \in 1..Len(bs) |-> Spread(LensOf(bs[k].ex))]) <= Spread(cl)

\* A pass of the shuffling iterator is exhausted in which a batch has a larger
\* length variance than the chunk it was cut from.
C9_Witness ==
    /\ batch_size >= 1
    /\ train
    /\ status = "exhausted"
    /\ \E k \in 1..Len(yielded) :
          LET b == LensOf(yielded[k].ex)
              c == LensOf(chunks[yielded[k].chunk])
          IN  VarNum(b) * Len(c) * Len(c) > VarNum(c) * Len(b) * Len(b)

\* The numbers of s in ascending order.
RECURSIVE Ascending(_)
Ascending(s) ==
    IF s = <<>> THEN <<>>
    ELSE LET m == Min(Range(s))
             i == CHOOSE i \in 1..Len(s) : s[i] = m
         IN  <<m>> \o Ascending(SubSeq(s, 1, i - 1) \o SubSeq(s, i + 1, Len(s)))

BagOfSeq(s) == [x \in Range(s) |-> Cardinality({i \in 1..Len(s) : s[i] = x})]

\* <<size, longest length>> of every yielded batch, and of the consecutive
\* slices of batch_size lengths of the dataset's lengths in ascending order.
YieldedStats ==
    [k \in 1..Len(yielded) |-> <<yielded[k].batch.batch_size, Len(yielded[k].batch.text[1])>>]
SliceStats ==
    [k \in 1..CeilDiv(N, batch_size) |->
        LET last == IF k * batch_size <= N THEN k * batch_size ELSE N
        IN  <<last - (k - 1) * batch_size, Ascending(dataset)[last]>>]

\* C10: when the dataset fits in one chunk (N <= B * K), the <<size, longest
\* length>> pairs of the batches of an exhausted pass are, as a multiset, those
\* of the consecutive slices of B of the ascending lengths, whatever the
\* generator state; for the lengths 3,7,2,9,4,8,1,6,5,10 with B = 4 and K = 3
\* they are <<4,4>>, <<4,8>> and <<2,10>>.
C10_SingleChunk ==
    (batch_size >= 1 /\ N <= batch_size * chunk_mult /\ status = "exhausted") =>
        /\ BagOfSeq(YieldedStats) = BagOfSeq(SliceStats)
        /\ (dataset = Scenario.lens /\ batch_size = Scenario.B /\ chunk_mult = Scenario.K) =>
              BagOfSeq(YieldedStats) = BagOfSeq(<< <<4, 4>>, <<4, 8>>, <<2, 10>> >>)

\* A pass of the shuffling iterator over the scenario's dataset is exhausted
\* with the batches yielded in another order than that of the sorted chunk.
C10_Witness ==
    /\ dataset = Scenario.lens
    /\ batch_size = Scenario.B
    /\ chunk_mult = Scenario.K
    /\ train
    /\ status = "exhausted"
    /\ YieldedStats[1] = <<2, 10>>


\* ------------------------------------------- examples with an empty text
\* The tokenizer returns no token for an empty review, and sort_key, the
\* lambda x: len(x.text), then returns 0 for it (len() is never negative).
\* The same iterators over datasets in which at least one text is empty.
DatasetsWithEmptyText ==
    {d \in SeqsUpTo(0..MaxLen, MaxN - 1) : \E i \in 1..Len(d) : d[i] = 0}

InitEmptyText ==
    /\ dataset \in DatasetsWithEmptyText
    /\ batch_size \in 1..MaxB
    /\ chunk_mult \in 1..MaxK
    /\ train \in BOOLEAN
    /\ globalRandom \in 0..(NumRandomStates - 1)
    /\ random_state = -1
    /\ status = "new"
    /\ batches = <<>>
    /\ chunks = <<>>
    /\ yielded = <<>>
    /\ passes = 0
    /\ history = <<>>
    /\ NotebookReady
    /\ LoopNotStarted

SpecEmptyText == InitEmptyText /\ [][Next]_vars

\* C11 (data error): an example whose length key is zero or negative is never
\* placed in a yielded batch, and no pass over a dataset holding such an
\* example runs to exhaustion: the pass stops with an error instead.
C11_DataError ==
    \A i \in 1..Len(dataset) :
        sort_key(i) <= 0 =>
            /\ \A k \in 1..Len(yielded) : i \notin Range(yielded[k].ex)
            /\ status # "exhausted"


\* ------------------------------------------------ claims on the vocabulary
TokensOf(texts) == {t \in Range(Alphabet) : CountIn(texts, t) > 0}
CorpusPart(list) == SubSeq(list, Len(specials) + 1, Len(list))
Built == cell \in {"vocab", "iterators"}

\* C12, the state part: TEXT.build_vocab has run at most once, and exactly
\* once from the vocabulary cell on; it runs after the split (the validation
\* split exists); every token of the vocabulary beyond the specials occurs in
\* the training split, so that a token found in the validation or test split
\* only has no entry; and the order of the entries follows the counts in the
\* training split alone.
C12_BuiltFromTrain ==
    /\ builds <= 1
    /\ (builds = 1) <=> Built
    /\ (builds = 0) <=> (vocab = <<>>)
    /\ Built =>
          /\ data_splits.valid # <<>>
          /\ Range(CorpusPart(vocab)) \subseteq TokensOf(data_splits.train)
          /\ \A tok \in (TokensOf(data_splits.valid) \cup TokensOf(data_splits.test))
                          \ (TokensOf(data_splits.train) \cup Range(specials)) :
                \A k \in 1..Len(vocab) : vocab[k] # tok
          /\ \A p, q \in 1..Len(CorpusPart(vocab)) :
                p < q => CountIn(data_splits.train, CorpusPart(vocab)[p])
                            >= CountIn(data_splits.train, CorpusPart(vocab)[q])

\* C12, the step part: once built, the vocabulary is changed by no later step
\* (the iterators cell, any pass of train() or evaluate()).
C12_NeverRebuilt == vocab # <<>> => vocab' = vocab

AlphaRank(tok) == CHOOSE k \in 1..Len(Alphabet) : Alphabet[k] = tok

\* Position of the first occurrence of tok in the texts read one after another.
FirstSeen(texts, tok) ==
    LET flat == Flatten(texts)
    IN  Min({k \in 1..Len(flat) : flat[k] = tok})

\* The part of C13 that does not depend on how ties are ordered: itos and stoi
\* are inverse to each other on the entries (token <-> id is a bijection); the
\* ids UNK and PAD are distinct and hold <unk> and <pad>; beyond them there are
\* at most max_size corpus tokens (exactly max_size when the training split
\* has that many), none rarer than a token left out, in non-increasing order
\* of their count in the training split.
VocabularyShape ==
    LET corpus == CorpusPart(vocab)
        count(tok) == CountIn(data_splits.train, tok)
        candidates == TokensOf(data_splits.train) \ Range(specials)
    IN  /\ \A p, q \in 1..Len(vocab) : p # q => vocab[p] # vocab[q]
        /\ \A p \in 1..Len(vocab) : stoi(vocab[p]) = p - 1
        /\ UNK # PAD
        /\ vocab[UNK + 1] = "<unk>"
        /\ vocab[PAD + 1] = "<pad>"
        /\ Len(vocab) <= max_size + 2
        /\ Len(corpus) = Min({max_size, Cardinality(candidates)})
        /\ Range(corpus) \subseteq candidates
        /\ \A t \in candidates \ Range(corpus) :
              \A p \in 1..Len(corpus) : count(corpus[p]) >= count(t)
        /\ \A p, q \in 1..Len(corpus) : p < q => count(corpus[p]) >= count(corpus[q])

\* The claim as stated: tokens of equal count are in first-seen order.
C13_TiesFirstSeen ==
    Built =>
        /\ VocabularyShape
        /\ \A p, q \in 1..Len(CorpusPart(vocab)) :
              LET s == CorpusPart(vocab)[p]
                  t == CorpusPart(vocab)[q]
              IN  (p < q /\ CountIn(data_splits.train, s) = CountIn(data_splits.train, t))
                      => FirstSeen(data_splits.train, s) < FirstSeen(data_splits.train, t)

\* C13: the vocabulary is a bijection between tokens and ids with the two
\* distinct reserved ids UNK and PAD and at most max_size corpus tokens (size
\* at most max_size + 2), the corpus tokens in decreasing order of frequency;
\* tokens of equal frequency are in alphabetical order, and the tokens left
\* out at a tie are the alphabetically later ones.
C13_Vocabulary ==
    Built =>
        /\ VocabularyShape
        /\ \A p, q \in 1..Len(CorpusPart(vocab)) :
              LET s == CorpusPart(vocab)[p]
                  t == CorpusPart(vocab)[q]
              IN  (p < q /\ CountIn(data_splits.train, s) = CountIn(data_splits.train, t))
                      => AlphaRank(s) < AlphaRank(t)
        /\ \A t \in (TokensOf(data_splits.train) \ Range(specials)) \ Range(CorpusPart(vocab)) :
              \A p \in 1..Len(CorpusPart(vocab)) :
                  CountIn(data_splits.train, CorpusPart(vocab)[p]) = CountIn(data_splits.train, t)
                      => AlphaRank(CorpusPart(vocab)[p]) < AlphaRank(t)

\* A vocabulary of max_size + 2 entries was built from a training split that
\* holds <pad> as a token, more than max_size other tokens, and two tokens of
\* equal count of which the alphabetically later one is seen first.
C13_Witness ==
    /\ Built
    /\ Len(vocab) = max_size + 2
    /\ "<pad>" \in TokensOf(data_splits.train)
    /\ Cardinality(TokensOf(data_splits.train) \ Range(specials)) > max_size
    /\ \E p, q \in 1..Len(CorpusPart(vocab)) :
          LET s == CorpusPart(vocab)[p]
              t == CorpusPart(vocab)[q]
          IN  /\ p < q
              /\ CountIn(data_splits.train, s) = CountIn(data_splits.train, t)
              /\ FirstSeen(data_splits.train, t) < FirstSeen(data_splits.train, s)


\* ------------------------------------------------------------------ frame
\* C16: no operation of the iterator (construction, a pass started or
\* restarted, a batch requested, a pass exhausted) changes the examples (the
\* lengths, and with them the texts and labels, of the dataset), the
\* vocabulary, the splits it was built from, the arguments the iterator was
\* built with, or the process-wide generator; what changes is among the
\* iterator's own state: its position, its batches and its shuffler's state.
C16_FrameStep ==
    /\ dataset' = dataset
    /\ \A i \in 1..Len(dataset) : TextOf(i)' = TextOf(i) /\ LabelOf(i)' = LabelOf(i)
    /\ vocab' = vocab
    /\ data_splits' = data_splits
    /\ <<batch_size, chunk_mult, train, max_size>>' = <<batch_size, chunk_mult, train, max_size>>
    /\ globalRandom' = globalRandom

PosIn(s, e) == CHOOSE a \in 1..Len(s) : s[a] = e

\* C17: with a batch size of at least 1, every chunk of a pass is sorted by
\* length and every chunk but the last holds exactly batch_size * chunk_mult
\* examples (the last at most that many); every yielded batch is made of
\* examples of one chunk that stand next to each other in it, in the chunk's
\* order for the shuffling iterator and in the reverse order for the sorting
\* ones; and of two batches of the same chunk one has no example longer than
\* any example of the other.
C17_ContiguousRuns ==
    batch_size >= 1 =>
        /\ \A c \in 1..Len(chunks) :
              /\ \A a, b \in 1..Len(chunks[c]) :
                    a < b => sort_key(chunks[c][a]) <= sort_key(chunks[c][b])
              /\ Len(chunks[c]) >= 1
              /\ sort \/ Len(chunks[c]) <= batch_size * chunk_mult
              /\ c < Len(chunks) => Len(chunks[c]) = batch_size * chunk_mult
        /\ \A k \in 1..Len(yielded) :
              LET ex == yielded[k].ex
                  p == chunks[yielded[k].chunk]
                  run == IF sort_within_batch THEN Reverse(ex) ELSE ex
              IN  /\ yielded[k].chunk \in 1..Len(chunks)
                  /\ Range(ex) \subseteq Range(p)
                  /\ run = SubSeq(p, PosIn(p, run[1]), PosIn(p, run[1]) + Len(ex) - 1)
        /\ \A k, m \in 1..Len(yielded) :
              (k # m /\ yielded[k].chunk = yielded[m].chunk) =>
                  \/ \A i \in Range(yielded[k].ex), j \in Range(yielded[m].ex) :
                        sort_key(i) <= sort_key(j)
                  \/ \A i \in Range(yielded[k].ex), j \in Range(yielded[m].ex) :
                        sort_key(j) <= sort_key(i)

\* A pass of the shuffling iterator is exhausted that had a full chunk and a
\* shorter last one, the full chunk cut into batches of different lengths.
C17_Witness ==
    /\ batch_size >= 1
    /\ train
    /\ status = "exhausted"
    /\ Len(chunks) >= 2
    /\ Len(chunks[Len(chunks)]) < batch_size * chunk_mult
    /\ \E k, m \in 1..Len(yielded) :
          /\ yielded[k].chunk = 1
          /\ yielded[m].chunk = 1
          /\ \E i \in Range(yielded[k].ex), j \in Range(yielded[m].ex) :
                sort_key(i) < sort_key(j)


\* ------------------------------------------------ claims on the functions
\* The statement Stmt of the loop body is the next one to run.
AtStmt(fn, stmt) == call = fn /\ pc >= 1 /\ Stmt = stmt

\* C18: whenever train() is about to run its forward pass or its optimizer
\* step (and anywhere in its loop body) the model is in training mode, and
\* whenever evaluate() is about to run its forward pass (and anywhere in its
\* loop body) the model is in evaluation mode, whatever call ran before; so it
\* is in the test evaluation after the epoch loop.
C18_Modes ==
    /\ (call = "train" /\ pc >= 1) => training = TRUE
    /\ (AtStmt("train", "forward") \/ AtStmt("train", "step")) => training = TRUE
    /\ (call = "evaluate" /\ pc >= 1) => training = FALSE
    /\ AtStmt("evaluate", "forward") => training = FALSE
    /\ (phase = "test" /\ call = "evaluate") => training = FALSE

\* The test evaluation, after epochs in which train() took optimizer steps, is
\* about to run a forward pass.
C18_Witness ==
    /\ phase = "test"
    /\ AtStmt("evaluate", "forward")
    /\ steps.train > 0
    /\ epoch = n_epochs
    /\ training = FALSE

\* The calls of the whole run: n_epochs times train then valid, then test.
RECURSIVE Epochs(_)
Epochs(n) == IF n = 0 THEN <<>> ELSE Epochs(n - 1) \o <<"train", "valid">>
Expected == Epochs(n_epochs) \o <<"test">>
CountOf(s, x) == Cardinality({i \in 1..Len(s) : s[i] = x})

\* C19: the calls that returned are, in order, a beginning of train, valid
\* (n_epochs times) and then test, each of them a complete pass (the iterator
\* yielded all its batches in the call); the run goes on until the test
\* evaluation has returned unless a call fails on an iterator without batches;
\* the test iterator is used in one call only, made after the last epoch; and
\* no optimizer step is taken on a batch of the validation or test iterator,
\* while every batch of a training pass gets one.
C19_EpochDriver ==
    /\ Len(log) <= Len(Expected)
    /\ log = SubSeq(Expected, 1, Len(log))
    /\ epoch = CountOf(log, "valid")
    /\ phase = "done" <=> log = Expected
    /\ phase \notin {"done", "failed"} => ENABLED NextLoop
    /\ phase = "failed" => call = "none" /\ \E it \in DOMAIN sizes : sizes[it] = <<>>
    /\ \A it \in DOMAIN sizes :
          fetched[it] = CountOf(log, it) * Len(sizes[it])
                          + (IF call # "none" /\ iterator = it THEN yields ELSE 0)
    /\ CountOf(log, "test") <= 1
    /\ fetched.test > 0 => (epoch = n_epochs /\ CountOf(log, "train") = n_epochs)
    /\ (phase = "test" /\ call # "none") => (epoch = n_epochs /\ Len(log) = 2 * n_epochs)
    /\ steps.valid = 0
    /\ steps.test = 0
    /\ call = "none" => steps.train = fetched.train

\* The run is over: every epoch made its two passes, each over more than one
\* batch, and the test evaluation has returned.
C19_Witness ==
    /\ phase = "done"
    /\ epoch = n_epochs
    /\ log = Expected
    /\ \A it \in DOMAIN sizes : Len(sizes[it]) = 2
    /\ steps.train = 2 * n_epochs
    /\ fetched.test = 2

\* binary_accuracy has returned in the running call.
AccComputed == call # "none" /\ pc >= 1 /\ \E i \in 1..(pc - 1) : Body(call)[i] = "acc"

\* What a logit is rounded to: 1 when its sigmoid is above one half, 0 when it
\* is below, and 0 when it is one half exactly.
RoundedTo(x) == IF 2 * sigmoid(x) > 1000 THEN 1 ELSE 0

\* C20: for a batch that is not empty, binary_accuracy(preds, y) is the number
\* of positions whose rounded prediction equals the label divided by the
\* length of the batch, a value between 0 and 1; a prediction is rounded to 1
\* when its sigmoid is greater than 0.5 and to 0 when it is less (and also when
\* it is 0.5 exactly).
C20_BinaryAccuracy ==
    AccComputed =>
        LET n == Len(label)
            hits == Cardinality({j \in 1..n : RoundedTo(predictions[j]) = label[j]})
        IN  /\ n >= 1
            /\ Len(predictions) = n
            /\ acc[2] >= 1
            /\ acc[1] * n = hits * acc[2]
            /\ 0 <= acc[1]
            /\ acc[1] <= acc[2]
            /\ \A j \in 1..n :
                  /\ sigmoid(predictions[j]) > 500 => round(sigmoid(predictions[j])) = 1
                  /\ sigmoid(predictions[j]) < 500 => round(sigmoid(predictions[j])) = 0

\* binary_accuracy returned one half for a batch of two, of which the first
\* prediction, of sigmoid above one half, matches its label 1 and the second,
\* of sigmoid one half exactly, misses its label 1.
C20_Witness ==
    /\ AccComputed
    /\ Len(label) = 2
    /\ acc = <<1, 2>>
    /\ \E j \in 1..2 : predictions[j] = 1 /\ label[j] = 1
    /\ \E j \in 1..2 : predictions[j] = 0 /\ label[j] = 1


\* The statements of s that are among those of `kept`, in the order of s.
Only(s, kept) == SelectSeq(s, LAMBDA x : x \in Range(kept))
IsPrefix(s, t) == Len(s) <= Len(t) /\ s = SubSeq(t, 1, Len(s))
StepOrder == <<"zero_grad", "forward", "loss", "backward", "step">>

\* C21: in a call of train(), the statements run on a batch are, in order,
\* zero_grad, forward pass, loss, backward, optimizer step, each once; the
\* gradients are empty when backward runs and hold the gradient of this
\* batch alone when the optimizer steps; and one optimizer step is taken for
\* every batch yielded, so that a training pass takes as many steps as it has
\* batches.
C21_TrainStep ==
    /\ (call = "train" /\ pc >= 1) =>
          /\ IsPrefix(Only(trace, StepOrder), StepOrder)
          /\ Stmt \in Range(StepOrder) => Stmt = StepOrder[Len(Only(trace, StepOrder)) + 1]
          /\ Stmt = "accum" => Only(trace, StepOrder) = StepOrder
          /\ Stmt = "backward" => grads = 0
          /\ Stmt = "step" => grads = 1
          /\ steps.train = fetched.train - (IF "step" \in Range(trace) THEN 0 ELSE 1)
    /\ (call = "train" /\ pc = 0) => steps.train = fetched.train
    /\ call # "train" =>
          /\ steps.train = fetched.train
          /\ steps.train = CountOf(log, "train") * Len(sizes.train)

\* The second batch of a training pass of a later epoch has gone through its
\* optimizer step.
C21_Witness ==
    /\ call = "train"
    /\ epoch >= 1
    /\ yields = 2
    /\ pc >= 1
    /\ Stmt = "accum"
    /\ grads = 1
    /\ steps.train = fetched.train
    /\ steps.train = 2 * epoch + 2


\* Number of updates the optimizer has applied: the parameters of the model
\* and the state of the optimizer change in optimizer.step() and nowhere else.
Updates == steps.train + steps.valid + steps.test

\* C22, one step: a step that belongs to a call of evaluate() (the call
\* itself, a statement of its loop, its return) is neither a backward pass
\* nor an optimizer step, and leaves the parameters, the optimizer state and
\* the gradients as they are; of the model only the mode flag can change, and
\* it changes to evaluation mode.
C22_EvaluateStep ==
    (call = "evaluate" \/ call' = "evaluate") =>
        /\ Updates' = Updates
        /\ steps' = steps
        /\ grads' = grads
        /\ training' = FALSE
        /\ (call = "evaluate" /\ pc >= 1) => Stmt \notin {"backward", "step", "zero_grad"}
        /\ "backward" \notin Range(trace')
        /\ "step" \notin Range(trace')

\* C22: evaluate(model, iterator, criterion) never performs a backward pass or
\* an optimizer step: from the call to the return the parameters, the
\* optimizer state and the gradients stay what they were, only the mode flag
\* being set to evaluation.
C22_EvaluateReadOnly == [][C22_EvaluateStep]_vars

\* evaluate() on the validation iterator has returned a result for a pass of
\* two batches, the model left in evaluation mode after a training pass that
\* took optimizer steps.
C22_Witness ==
    /\ call = "none"
    /\ log # <<>>
    /\ log[Len(log)] = "valid"
    /\ Len(sizes.valid) = 2
    /\ Len(per_batch) = 2
    /\ result # <<>>
    /\ training = FALSE
    /\ steps.train >= 1
    /\ steps.valid = 0


\* The call that returned last, the sizes of the batches of its pass, and the
\* per-batch losses and accuracies it added up.
LastIterator == log[Len(log)]
LastSizes == sizes[LastIterator]
BatchLoss == [k \in 1..Len(per_batch) |-> per_batch[k][1]]
BatchAcc == [k \in 1..Len(per_batch) |-> per_batch[k][2]]

\* The fraction r is the mean of the fractions of fs: with D the product of
\* their denominators, r * D * Len(fs) = the sum of the numerators brought to
\* the denominator D.
IsMeanOf(r, fs) ==
    LET D == ProdSeq([k \in 1..Len(fs) |-> fs[k][2]])
        S == SumSeq([k \in 1..Len(fs) |-> fs[k][1] * (D \div fs[k][2])])
    IN  r[1] * D * Len(fs) = r[2] * S

\* Number of examples of batch k that were classified correctly.
HitsOf(k) == (BatchAcc[k][1] * LastSizes[k]) \div BatchAcc[k][2]
TotalHits == SumSeq([k \in 1..Len(per_batch) |-> HitsOf(k)])
TotalExamples == SumSeq(LastSizes)

\* C23: the loss and the accuracy train() and evaluate() return are the
\* unweighted means of the per-batch values, the sum over the yielded batches
\* divided by the number of batches; when all batches of the pass have the
\* same size the accuracy is the fraction of the examples of the pass that
\* were classified correctly.
C23_EpochMean ==
    result # <<>> =>
        /\ Len(per_batch) = Len(LastSizes)
        /\ Len(per_batch) >= 1
        /\ \A k \in 1..Len(per_batch) : BatchAcc[k][1] * LastSizes[k] = HitsOf(k) * BatchAcc[k][2]
        /\ IsMeanOf(result[1], BatchLoss)
        /\ IsMeanOf(result[2], BatchAcc)
        /\ (\A k \in 1..Len(LastSizes) : LastSizes[k] = LastSizes[1]) =>
              result[2][1] * TotalExamples = result[2][2] * TotalHits

\* A pass of a batch of two and a batch of one has returned an accuracy that
\* is not the fraction of its three examples classified correctly.
C23_Witness ==
    /\ result # <<>>
    /\ LastSizes = <<2, 1>>
    /\ IsMeanOf(result[2], BatchAcc)
    /\ result[2][1] * TotalExamples # result[2][2] * TotalHits


\* The iterator of the call that failed: the one the run had come to.
FailedIterator == Expected[Len(log) + 1]

\* C24: a call of train() or evaluate() that has returned returned a pair
\* (loss, accuracy), and its iterator yielded at least one batch; the run
\* fails only in a call on an iterator of no batches (len(iterator) = 0), at
\* the division after a loop that ran no batch: nothing is returned, and no
\* optimizer step was taken in the failed call (none at all when it is the
\* first training pass).
C24_EmptyIterator ==
    /\ (call = "none" /\ log # <<>> /\ phase # "failed") =>
          /\ Len(result) = 2
          /\ Len(LastSizes) >= 1
          /\ Len(per_batch) = Len(LastSizes)
    /\ \A k \in 1..Len(log) : Len(sizes[log[k]]) >= 1
    /\ phase = "failed" =>
          /\ call = "none"
          /\ result = <<>>
          /\ Len(log) < Len(Expected)
          /\ sizes[FailedIterator] = <<>>
          /\ fetched[FailedIterator] = 0
          /\ steps[FailedIterator] = 0
          /\ per_batch = <<>>
          /\ FailedIterator = "train" => (log = <<>> /\ Updates = 0)
    /\ (call # "none" /\ pc = 0 /\ yields = Len(sizes[iterator])) => ENABLED Return

\* train() failed on a training iterator of no batches: model.train() had
\* run, the loop ran no batch and no optimizer step was taken.
C24_Witness ==
    /\ phase = "failed"
    /\ sizes.train = <<>>
    /\ log = <<>>
    /\ training = TRUE
    /\ steps.train = 0
    /\ result = <<>>

==========================================================================
